---------------------------- MODULE Spec2Model ----------------------------
(***************************************************************************)
(* Model of hr-fde-backend: the booking write path                         *)
(* (routes/booked_loads.py -> book_load -> insert_booked_load) and the     *)
(* analytics aggregations (services/analytics_service.py over the queries  *)
(* of db/repositories/analytics_repo.py).                                  *)
(***************************************************************************)
EXTENDS Integers, Sequences, FiniteSets, TLC

(***************************************************************************)
(* Bounds of the model.                                                    *)
(***************************************************************************)
NumRequests == 3

Procs == 1..NumRequests

\* Load ids present in the loads table, and one id that matches no load.
LoadIds == {"L1", "L2"}
UnknownLoadId == "LX"
RequestLoadIds == LoadIds \cup {UnknownLoadId}

\* SQL NULL / Python None for string-valued fields.
NULL == "NULL"

VARIABLES
    \* ---- datastore (committed, observable state) ----
    loads,          \* loads table: load_id -> [status, booked_at]
    booked_loads,   \* booked_loads table: sequence of rows in insertion order
    clock,          \* datetime.utcnow()
    writer,         \* the connection holding the datastore's write lock, or 0
    tx,             \* the writer's uncommitted view: [rows, loads]
    \* ---- one POST /api/booked-loads request per process ----
    pc,             \* position of the request in create_booking / book_load
    req,            \* BookedLoadRequest: [load_id]
    load,           \* book_load's local: the looked-up load row, or NULL
    booking,        \* insert_booked_load's dict: [id, created_at]
    result,         \* outcome of book_load
    error,          \* book_load's error message (a sequence of words), <<>> if none
    http,           \* HTTP status create_booking answers with, 0 while pending
    \* ---- history (not program state) ----
    loads0,         \* the loads table before any request
    pre,            \* the two tables when the latest request was received
    atStart,        \* per request: status of its load when it was received
    \* ---- analytics ----
    calls,          \* calls table: sequence of rows in rowid order
    analytics,      \* the AnalyticsResponse get_analytics is assembling
    step            \* how many of its four aggregations have run

bvars == <<loads, booked_loads, clock, writer, tx, pc, req, load, booking,
           result, error, http, loads0, pre, atStart>>

avars == <<calls, analytics, step>>

vars == <<bvars, avars>>

NoTx == [rows |-> <<>>, loads |-> <<>>]

\* AnalyticsResponse's defaults: four empty lists.
EmptyResponse ==
    [negotiation_depth |-> <<>>, carrier_objections |-> <<>>,
     top_lanes |-> <<>>, equipment_demand_supply |-> <<>>]

(***************************************************************************)
(* Helpers on the tables.                                                  *)
(***************************************************************************)
\* Indices of the booked_loads rows of one load.
RowsOf(rows, lid) == {i \in 1..Len(rows) : rows[i].load_id = lid}

\* Whether a row with this booking id is in the table.
HasBooking(rows, id) == \E i \in 1..Len(rows) : rows[i].id = id

\* SELECT status of a load, "absent" when no row matches.
StatusOf(ls, lid) == IF lid \in DOMAIN ls THEN ls[lid].status ELSE "absent"

(***************************************************************************)
(* Whether the word sequence pat occurs contiguously in msg: Python's      *)
(* `pat in msg` on the words of the message.                               *)
(***************************************************************************)
Contains(msg, pat) ==
    \E i \in 0..(Len(msg) - Len(pat)) :
        \A j \in 1..Len(pat) : msg[i + j] = pat[j]

(***************************************************************************)
(* book_load's two failures, as the messages the spec names.               *)
(***************************************************************************)
NotFoundMessage == <<"no", "such", "load">>
ConflictMessage == <<"load", "already", "booked">>

(***************************************************************************)
(* create_booking: status = 409 if "already booked" in error else 404.     *)
(***************************************************************************)
HttpStatus_Swapped(err) ==
    IF Contains(err, <<"already", "booked">>) THEN 404 ELSE 409

HttpStatus(err) ==
    IF Contains(err, <<"already", "booked">>) THEN 409 ELSE 404

(***************************************************************************)
(* insert_booked_load's two statements, on the transaction's view.         *)
(***************************************************************************)
\* INSERT INTO booked_loads (...) VALUES (...): one more row, unconditionally.
InsertRow_Skipped(rows, b, lid, seen) == rows

InsertRow(rows, b, lid, seen) ==
    Append(rows, [id |-> b.id, load_id |-> lid, created_at |-> b.created_at,
                  status_at_insert |-> seen])

UpdateLoad_Skipped(ls, b, lid) == ls

\* UPDATE loads SET status='booked', booked_at=? WHERE load_id=?
UpdateLoad(ls, b, lid) ==
    [l \in DOMAIN ls |->
        IF l = lid THEN [ls[l] EXCEPT !.status = "booked",
                                      !.booked_at = b.created_at]
                   ELSE ls[l]]

\* No request has been received; the history starts from the tables as given.
RequestInit ==
    /\ clock = 1
    /\ writer = 0
    /\ tx = NoTx
    /\ pc = [p \in Procs |-> "idle"]
    /\ req = [p \in Procs |-> [load_id |-> NULL]]
    /\ load = [p \in Procs |-> NULL]
    /\ booking = [p \in Procs |-> [id |-> 0, created_at |-> 0]]
    /\ result = [p \in Procs |-> "pending"]
    /\ error = [p \in Procs |-> <<>>]
    /\ http = [p \in Procs |-> 0]
    /\ loads0 = loads
    /\ pre = [loads |-> loads, booked_loads |-> booked_loads]
    /\ atStart = [p \in Procs |-> "none"]

(***************************************************************************)
(* Initial state: load L1 is available, load L2 is in another status, no   *)
(* booking exists yet and no request has been received.                    *)
(***************************************************************************)
BookInit ==
    /\ loads = [l \in LoadIds |->
                  [status |-> IF l = "L1" THEN "available" ELSE "in_transit",
                   equipment_type |-> "dry_van", booked_at |-> 0]]
    /\ booked_loads = <<>>
    /\ calls = <<>>
    /\ analytics = EmptyResponse
    /\ step = 0
    /\ RequestInit

(***************************************************************************)
(* create_booking: a request arrives and book_load(req) is called.  The    *)
(* requests are interchangeable, so they are numbered in the order they    *)
(* arrive: request p arrives after requests 1..p-1.                        *)
(***************************************************************************)
create_booking(p, lid) ==
    /\ pc[p] = "idle"
    /\ \A q \in 1..(p - 1) : pc[q] # "idle"
    /\ req' = [req EXCEPT ![p] = [load_id |-> lid]]
    /\ pc' = [pc EXCEPT ![p] = "lookup"]
    /\ pre' = [loads |-> loads, booked_loads |-> booked_loads]
    /\ atStart' = [atStart EXCEPT ![p] = StatusOf(loads, lid)]
    /\ UNCHANGED <<loads, booked_loads, clock, writer, tx, load, booking,
                   result, error, http, loads0>>
    /\ UNCHANGED avars

\* book_load step 2: the status check, on the row that step 1 read.
book_load_check(p, row) ==
    IF row.status # "available"
    THEN /\ result' = [result EXCEPT ![p] = "Conflict"]
         /\ error' = [error EXCEPT ![p] = ConflictMessage]
         /\ pc' = [pc EXCEPT ![p] = "respond"]
    ELSE /\ pc' = [pc EXCEPT ![p] = "begin"]
         /\ UNCHANGED <<result, error>>

\* book_load steps 1-2: look the load up (one read of the committed state)
\* and check the status of the row that was read.
book_load(p) ==
    /\ pc[p] = "lookup"
    /\ IF req[p].load_id \notin DOMAIN loads
       THEN /\ result' = [result EXCEPT ![p] = "NotFound"]
            /\ error' = [error EXCEPT ![p] = NotFoundMessage]
            /\ pc' = [pc EXCEPT ![p] = "respond"]
            /\ UNCHANGED load
       ELSE /\ load' = [load EXCEPT ![p] = loads[req[p].load_id]]
            /\ book_load_check(p, loads[req[p].load_id])
    /\ UNCHANGED <<loads, booked_loads, clock, writer, tx, req, booking, http,
                   loads0, pre, atStart>>
    /\ UNCHANGED avars

\* insert_booked_load, lines 8-9: the id and the timestamp. The id is a fresh
\* random token (one per request); two calls may read the same clock value.
insert_booked_load_begin(p) ==
    /\ pc[p] = "begin"
    /\ \E t \in {clock, clock + 1} :
          /\ clock' = t
          /\ booking' = [booking EXCEPT ![p] = [id |-> p, created_at |-> t]]
    /\ pc' = [pc EXCEPT ![p] = "insert"]
    /\ UNCHANGED <<loads, booked_loads, writer, tx, req, load, result, error,
                   http, loads0, pre, atStart>>
    /\ UNCHANGED avars

\* insert_booked_load, lines 10-28: the transaction opens and the INSERT runs;
\* the first write takes the datastore's write lock.
insert_booked_load_insert(p) ==
    /\ pc[p] = "insert"
    /\ writer = 0
    /\ writer' = p
    /\ tx' = [rows |-> InsertRow(booked_loads, booking[p], req[p].load_id,
                                 StatusOf(loads, req[p].load_id)),
              loads |-> loads]
    /\ pc' = [pc EXCEPT ![p] = "update"]
    /\ UNCHANGED <<loads, booked_loads, clock, req, load, booking, result,
                   error, http, loads0, pre, atStart>>
    /\ UNCHANGED avars

\* insert_booked_load, lines 29-33: the UPDATE, in the same transaction.
insert_booked_load_update(p) ==
    /\ pc[p] = "update"
    /\ writer = p
    /\ tx' = [tx EXCEPT !.loads = UpdateLoad(tx.loads, booking[p], req[p].load_id)]
    /\ pc' = [pc EXCEPT ![p] = "commit"]
    /\ UNCHANGED <<loads, booked_loads, clock, writer, req, load, booking,
                   result, error, http, loads0, pre, atStart>>
    /\ UNCHANGED avars

\* insert_booked_load, line 34: the with-block ends, the transaction commits
\* and the booking is returned (book_load returns it with no error).
insert_booked_load_commit(p) ==
    /\ pc[p] = "commit"
    /\ writer = p
    /\ booked_loads' = tx.rows
    /\ loads' = tx.loads
    /\ writer' = 0
    /\ tx' = NoTx
    /\ result' = [result EXCEPT ![p] = "ok"]
    /\ pc' = [pc EXCEPT ![p] = "respond"]
    /\ UNCHANGED <<clock, req, load, booking, error, http, loads0, pre,
                   atStart>>
    /\ UNCHANGED avars

\* Where a request stopped when a statement raised.
FailedAt(at) ==
    CASE at = "insert" -> "failed_insert"
      [] at = "update" -> "failed_update"
      [] OTHER         -> "failed_commit"

\* A statement or the commit raises: the transaction is rolled back, the lock
\* released, and the exception leaves create_booking (a 500).
storage_failure(p) ==
    /\ pc[p] \in {"insert", "update", "commit"}
    /\ IF writer = p
       THEN writer' = 0 /\ tx' = NoTx
       ELSE UNCHANGED <<writer, tx>>
    /\ result' = [result EXCEPT ![p] = "StorageFailure"]
    /\ http' = [http EXCEPT ![p] = 500]
    /\ pc' = [pc EXCEPT ![p] = FailedAt(pc[p])]
    /\ UNCHANGED <<loads, booked_loads, clock, req, load, booking, error,
                   loads0, pre, atStart>>
    /\ UNCHANGED avars

\* create_booking, lines 24-28: map the error to a response code.
create_booking_respond(p) ==
    /\ pc[p] = "respond"
    /\ http' = [http EXCEPT ![p] =
                  IF error[p] # <<>> THEN HttpStatus(error[p]) ELSE 200]
    /\ pc' = [pc EXCEPT ![p] = "done"]
    /\ UNCHANGED <<loads, booked_loads, clock, writer, tx, req, load, booking,
                   result, error, loads0, pre, atStart>>
    /\ UNCHANGED avars

(***************************************************************************)
(* Concurrent requests: any interleaving of the requests' steps.           *)
(***************************************************************************)
Init == BookInit

Next ==
    \E p \in Procs :
        \/ \E lid \in RequestLoadIds : create_booking(p, lid)
        \/ book_load(p)
        \/ insert_booked_load_begin(p)
        \/ insert_booked_load_insert(p)
        \/ insert_booked_load_update(p)
        \/ insert_booked_load_commit(p)
        \/ storage_failure(p)
        \/ create_booking_respond(p)

Spec == Init /\ [][Next]_vars

(***************************************************************************)
(* Sequential requests: a request arrives only when no other request is    *)
(* in progress, and the datastore does not fail.                           *)
(***************************************************************************)
seq_create_booking(p, lid) ==
    /\ \A q \in Procs : pc[q] \in {"idle", "done"}
    /\ create_booking(p, lid)

NextSeq ==
    \E p \in Procs :
        \/ \E lid \in RequestLoadIds : seq_create_booking(p, lid)
        \/ book_load(p)
        \/ insert_booked_load_begin(p)
        \/ insert_booked_load_insert(p)
        \/ insert_booked_load_update(p)
        \/ insert_booked_load_commit(p)
        \/ create_booking_respond(p)

SpecSeq == Init /\ [][NextSeq]_vars

(***************************************************************************)
(* ------------------------------ Analytics ------------------------------ *)
(* Rows of the calls table:                                                *)
(*   [call_id, outcome, negotiation_rounds, equipment_type, lane_origin,   *)
(*    lane_destination, final_rate, recent]                                *)
(* where recent stands for created_at >= datetime('now', '-30 days').      *)
(***************************************************************************)
\* SQL NULL / Python None for number-valued fields.
NoValue == 0 - 1

Min(a, b) == IF a <= b THEN a ELSE b

\* Python's round(num / den) for num >= 0, den > 0: ties go to the even integer.
RoundHalfEven(num, den) ==
    LET q == num \div den
        r == num % den
    IN  IF 2 * r < den THEN q
        ELSE IF 2 * r > den THEN q + 1
        ELSE IF q % 2 = 0 THEN q ELSE q + 1

Pct_PerMille(count, total) == RoundHalfEven(1000 * count, total)

\* round(count / total * 100); the float quotient rounds as the exact one for
\* every count and total the tables below produce.
Pct(count, total) == RoundHalfEven(100 * count, total)

(***************************************************************************)
(* collections.Counter: a sequence of <<key, count>> in insertion order.   *)
(***************************************************************************)
CounterHas(ctr, key) == \E i \in 1..Len(ctr) : ctr[i][1] = key

\* ctr.get(key, 0)
CounterGet(ctr, key) ==
    IF CounterHas(ctr, key)
    THEN ctr[CHOOSE i \in 1..Len(ctr) : ctr[i][1] = key][2]
    ELSE 0

\* ctr[key] += 1
CounterAdd(ctr, key) ==
    IF CounterHas(ctr, key)
    THEN [i \in 1..Len(ctr) |->
            IF ctr[i][1] = key THEN <<key, ctr[i][2] + 1>> ELSE ctr[i]]
    ELSE Append(ctr, <<key, 1>>)

RECURSIVE FoldRange(_, _, _, _, _)
\* acc after `for x in s[lo..hi]: acc = Step(acc, x)`.  The range is halved
\* and the first half is evaluated (by the comparison) before the second is
\* entered, which keeps the evaluation shallow on long tables.
FoldRange(Step(_, _), acc, s, lo, hi) ==
    IF lo > hi THEN acc
    ELSE IF lo = hi THEN Step(acc, s[lo])
    ELSE LET mid == (lo + hi) \div 2
             left == FoldRange(Step, acc, s, lo, mid)
         IN  IF left = acc
             THEN FoldRange(Step, acc, s, mid + 1, hi)
             ELSE FoldRange(Step, left, s, mid + 1, hi)

\* for x in s: acc = Step(acc, x)
ForEach(Step(_, _), acc, s) == FoldRange(Step, acc, s, 1, Len(s))

AddCount(n, entry) == n + entry[2]

\* sum(ctr.values())
SumCounts(ctr) == ForEach(AddCount, 0, ctr)

\* Position of element i of s in the stable ordering by Before(_, _):
\* after every element that goes strictly before it and after the earlier
\* elements that tie with it.
SortedPosition(s, i, Before(_, _)) ==
    1 + Cardinality({j \in 1..Len(s) :
                        \/ Before(s[j], s[i])
                        \/ (j < i /\ ~Before(s[i], s[j]))})

\* A stable sort of s (Python's sorted / list.sort).
StableSort(s, Before(_, _)) ==
    [k \in 1..Len(s) |->
        s[CHOOSE i \in 1..Len(s) : SortedPosition(s, i, Before) = k]]

MoreCount(a, b) == a[2] > b[2]
SmallerKey(a, b) == a[1] < b[1]

\* Counter.most_common(): by count, descending; equal counts keep insertion order.
most_common(ctr) == StableSort(ctr, MoreCount)

\* Counter.most_common(n)
most_common_n(ctr, n) == SubSeq(most_common(ctr), 1, Min(n, Len(ctr)))

(***************************************************************************)
(* analytics_repo.py: the queries.                                         *)
(***************************************************************************)
IsBookedRecent(c) == c.outcome = "booked" /\ c.recent
IsFailedRecent(c) ==
    c.outcome \in {"negotiation_failed", "dropped_call"} /\ c.recent

get_booked_calls_last_30_days(cs) == SelectSeq(cs, IsBookedRecent)

get_failed_calls_last_30_days(cs) == SelectSeq(cs, IsFailedRecent)

\* One call row with the agreed_rate column of the join.
JoinedRow(c, rate) ==
    [call_id |-> c.call_id, outcome |-> c.outcome,
     negotiation_rounds |-> c.negotiation_rounds,
     equipment_type |-> c.equipment_type,
     lane_origin |-> c.lane_origin, lane_destination |-> c.lane_destination,
     final_rate |-> c.final_rate, recent |-> c.recent, agreed_rate |-> rate]

\* calls c LEFT JOIN booked_loads bl ON c.call_id = bl.call_id, for one call:
\* one row per matching booking, or one row with a NULL agreed_rate.
JoinedRows(c, bls) ==
    LET m == SelectSeq(bls, LAMBDA b : b.call_id = c.call_id)
    IN  IF m = <<>> THEN <<JoinedRow(c, NoValue)>>
        ELSE [i \in 1..Len(m) |-> JoinedRow(c, m[i].agreed_rate)]

get_all_calls_last_30_days(cs, bls) ==
    LET JoinOne(rows, c) ==
            IF c.recent THEN rows \o JoinedRows(c, bls) ELSE rows
    IN  ForEach(JoinOne, <<>>, cs)

\* SELECT equipment_type, COUNT(*) FROM loads WHERE status = 'available'
\* GROUP BY equipment_type: a dict type -> count.
get_available_loads_by_equipment(ls) ==
    LET avail == {l \in DOMAIN ls : ls[l].status = "available"}
    IN  [t \in {ls[l].equipment_type : l \in avail} |->
            Cardinality({l \in avail : ls[l].equipment_type = t})]

\* SELECT equipment_type, COUNT(*) FROM calls WHERE equipment_type IS NOT NULL
\* AND created_at >= ... GROUP BY equipment_type.
get_recent_calls_by_equipment(cs) ==
    LET rows == {i \in 1..Len(cs) : cs[i].equipment_type # NULL /\ cs[i].recent}
    IN  [t \in {cs[i].equipment_type : i \in rows} |->
            Cardinality({i \in rows : cs[i].equipment_type = t})]

(***************************************************************************)
(* _negotiation_depth                                                      *)
(***************************************************************************)
DepthLabel(key) ==
    CASE key = 0 -> "1st offer"
      [] key = 1 -> "1 round"
      [] key = 2 -> "2 rounds"
      [] key = 3 -> "3 rounds (max)"
      [] OTHER   -> ToString(key) \o " rounds"

DepthKey_Unclamped(c) ==
    IF c.negotiation_rounds = NoValue THEN 0 ELSE c.negotiation_rounds

\* rounds = call.get("negotiation_rounds", 0) or 0; key = min(rounds, 3)
DepthKey(c) ==
    Min(IF c.negotiation_rounds = NoValue THEN 0 ELSE c.negotiation_rounds, 3)

\* buckets[key] += 1
DepthStep(buckets, c) == CounterAdd(buckets, DepthKey(c))

\* the loop over booked calls, filling the Counter
DepthBuckets(booked) == ForEach(DepthStep, <<>>, booked)

negotiation_depth(cs) ==
    LET booked == get_booked_calls_last_30_days(cs)
        buckets == DepthBuckets(booked)
        total == SumCounts(buckets)
        sorted == StableSort(buckets, SmallerKey)
    IN  IF booked = <<>> THEN <<>>
        ELSE [i \in 1..Len(sorted) |->
                [round |-> DepthLabel(sorted[i][1]),
                 pct |-> Pct(sorted[i][2], total)]]

(***************************************************************************)
(* _carrier_objections                                                     *)
(***************************************************************************)
\* one iteration of the loop over the failed/dropped rows
FailedStep(reasons, c) ==
    IF c.outcome = "negotiation_failed" THEN CounterAdd(reasons, "Rate too low")
    ELSE IF c.outcome = "dropped_call" THEN CounterAdd(reasons, "Call dropped")
    ELSE reasons

FailedReasons(failed) == ForEach(FailedStep, <<>>, failed)

\* one iteration of the loop over all calls, counting no_loads_available
NoLoadsStep(reasons, c) ==
    IF c.outcome = "no_loads_available"
    THEN CounterAdd(reasons, "No matching loads")
    ELSE reasons

NoLoadsReasons(reasons, all) == ForEach(NoLoadsStep, reasons, all)

carrier_objections(cs, bls) ==
    LET failed == get_failed_calls_last_30_days(cs)
        all == get_all_calls_last_30_days(cs, bls)
        reasons == NoLoadsReasons(FailedReasons(failed), all)
        total == SumCounts(reasons)
        ranked == most_common(reasons)
    IN  IF reasons = <<>> THEN <<>>
        ELSE [i \in 1..Len(ranked) |->
                [reason |-> ranked[i][1], count |-> ranked[i][2],
                 pct |-> Pct(ranked[i][2], total)]]

(***************************************************************************)
(* _top_lanes                                                              *)
(***************************************************************************)
\* Python truthiness of a string field: neither None nor empty.
Truthy(x) == x # NULL /\ x # ""

\* f"{origin} → {dest}" (the arrow is written -> here)
LaneKey(c) == c.lane_origin \o " -> " \o c.lane_destination

\* agreed = call.get("agreed_rate") or call.get("final_rate"): a NULL or zero
\* agreed_rate falls back to final_rate.
RateOf(c) ==
    IF c.agreed_rate # NoValue /\ c.agreed_rate # 0
    THEN c.agreed_rate ELSE c.final_rate

\* lane_rates[lane].append(rate), on a sequence of <<lane, rates>>
RatesAppend(rates, lane, rate) ==
    IF \E i \in 1..Len(rates) : rates[i][1] = lane
    THEN [i \in 1..Len(rates) |->
            IF rates[i][1] = lane
            THEN <<lane, Append(rates[i][2], rate)>> ELSE rates[i]]
    ELSE Append(rates, <<lane, <<rate>> >>)

\* lane_rates.get(lane, [])
RatesGet(rates, lane) ==
    IF \E i \in 1..Len(rates) : rates[i][1] = lane
    THEN rates[CHOOSE i \in 1..Len(rates) : rates[i][1] = lane][2]
    ELSE <<>>

Plus(a, b) == a + b

\* sum(rates)
SumSeq(s) == ForEach(Plus, 0, s)

\* Three digits of a thousands group.
Pad3(n) ==
    IF n < 10 THEN "00" \o ToString(n)
    ELSE IF n < 100 THEN "0" \o ToString(n)
    ELSE ToString(n)

RECURSIVE Thousands(_)
\* f"{n:,}" for an integer n >= 0
Thousands(n) ==
    IF n < 1000 THEN ToString(n)
    ELSE Thousands(n \div 1000) \o "," \o Pad3(n % 1000)

\* avg = sum(rates) / len(rates); f"${avg:,.0f}", or "$0" without rates
FormatAvgRate(rates) ==
    IF rates = <<>> THEN "$0"
    ELSE "$" \o Thousands(RoundHalfEven(SumSeq(rates), Len(rates)))

\* One iteration of the loop over all calls.
LaneStep(acc, c) ==
    IF ~(Truthy(c.lane_origin) /\ Truthy(c.lane_destination)) THEN acc
    ELSE LET lane == LaneKey(c)
             booked == c.outcome = "booked"
         IN  [lane_calls |-> CounterAdd(acc.lane_calls, lane),
              lane_bookings |-> IF booked
                                THEN CounterAdd(acc.lane_bookings, lane)
                                ELSE acc.lane_bookings,
              lane_rates |-> IF booked /\ RateOf(c) # NoValue
                             THEN RatesAppend(acc.lane_rates, lane, RateOf(c))
                             ELSE acc.lane_rates]

LaneCounters(all) ==
    ForEach(LaneStep,
            [lane_calls |-> <<>>, lane_bookings |-> <<>>, lane_rates |-> <<>>],
            all)

top_lanes(cs, bls) ==
    LET acc == LaneCounters(get_all_calls_last_30_days(cs, bls))
        top == most_common_n(acc.lane_calls, 5)
    IN  [i \in 1..Len(top) |->
            [lane |-> top[i][1], calls |-> top[i][2],
             bookings |-> CounterGet(acc.lane_bookings, top[i][1]),
             avg_rate |-> FormatAvgRate(RatesGet(acc.lane_rates, top[i][1]))]]

(***************************************************************************)
(* _equipment_demand_supply                                                *)
(***************************************************************************)
\* The equipment types of the model in Python's string order: sorted(...)
\* of a set of them is this sequence restricted to the set.
EquipOrder ==
    <<"car_hauler", "dry_van", "flatbed", "power_only", "reefer", "step_deck">>

\* _format_equip: the label table, else raw.replace("_", " ").title()
_format_equip(raw) ==
    CASE raw = "dry_van"    -> "Dry Van"
      [] raw = "reefer"     -> "Reefer"
      [] raw = "flatbed"    -> "Flatbed"
      [] raw = "step_deck"  -> "Step Deck"
      [] raw = "power_only" -> "Power Only"
      [] raw = "car_hauler" -> "Car Hauler"

\* d.get(key, 0)
DictGet(d, key) == IF key \in DOMAIN d THEN d[key] ELSE 0

SumOver(d, keys) ==
    LET AddValue(n, key) == n + DictGet(d, key) IN ForEach(AddValue, 0, keys)

\* sum(d.values()) or 1
TotalOrOne(d) ==
    LET t == SumOver(d, EquipOrder) IN IF t = 0 THEN 1 ELSE t

\* The ordering by the other column, to compare with.
MoreDemand_BySupply(a, b) == a.supply > b.supply

\* key=lambda x: x.demand, reverse=True
MoreDemand(a, b) == a.demand > b.demand

equipment_demand_supply(ls, cs) ==
    LET demand_raw == get_available_loads_by_equipment(ls)
        supply_raw == get_recent_calls_by_equipment(cs)
        all_types == SelectSeq(EquipOrder,
                        LAMBDA t : t \in DOMAIN demand_raw \cup DOMAIN supply_raw)
        demand_total == TotalOrOne(demand_raw)
        supply_total == TotalOrOne(supply_raw)
        entries == [i \in 1..Len(all_types) |->
                     [type |-> _format_equip(all_types[i]),
                      demand |-> Pct(DictGet(demand_raw, all_types[i]), demand_total),
                      supply |-> Pct(DictGet(supply_raw, all_types[i]), supply_total)]]
    IN  StableSort(entries, MoreDemand)

(***************************************************************************)
(* get_analytics: the four aggregations, in the order its arguments are    *)
(* evaluated, each reading the tables afresh.                              *)
(***************************************************************************)
get_analytics_negotiation_depth ==
    /\ step = 0
    /\ analytics' = [analytics EXCEPT !.negotiation_depth = negotiation_depth(calls)]
    /\ step' = 1
    /\ UNCHANGED <<bvars, calls>>

get_analytics_carrier_objections ==
    /\ step = 1
    /\ analytics' = [analytics EXCEPT
                        !.carrier_objections = carrier_objections(calls, booked_loads)]
    /\ step' = 2
    /\ UNCHANGED <<bvars, calls>>

get_analytics_top_lanes ==
    /\ step = 2
    /\ analytics' = [analytics EXCEPT !.top_lanes = top_lanes(calls, booked_loads)]
    /\ step' = 3
    /\ UNCHANGED <<bvars, calls>>

get_analytics_equipment_demand_supply ==
    /\ step = 3
    /\ analytics' = [analytics EXCEPT
                        !.equipment_demand_supply = equipment_demand_supply(loads, calls)]
    /\ step' = 4
    /\ UNCHANGED <<bvars, calls>>

NextAnalytics ==
    \/ get_analytics_negotiation_depth
    \/ get_analytics_carrier_objections
    \/ get_analytics_top_lanes
    \/ get_analytics_equipment_demand_supply

(***************************************************************************)
(* The tables an analytics request may find.  Four families of contents,   *)
(* each varying the columns one aggregation reads.                         *)
(***************************************************************************)
MaxDepthCalls == 3
MaxObjectionCalls == 4
MaxLaneCalls == 3
MaxExtraLaneCalls == 2
MaxReeferCalls == 2
BigCount == 199

CallRow(outcome, rounds, equip, origin, dest, rate, recent) ==
    [outcome |-> outcome, negotiation_rounds |-> rounds,
     equipment_type |-> equip, lane_origin |-> origin,
     lane_destination |-> dest, final_rate |-> rate, recent |-> recent]

\* The rows of a table get their call_id from their position.
WithIds(rows) ==
    [i \in 1..Len(rows) |->
        [call_id |-> i, outcome |-> rows[i].outcome,
         negotiation_rounds |-> rows[i].negotiation_rounds,
         equipment_type |-> rows[i].equipment_type,
         lane_origin |-> rows[i].lane_origin,
         lane_destination |-> rows[i].lane_destination,
         final_rate |-> rows[i].final_rate, recent |-> rows[i].recent]]

SeqsUpTo(S, n) == UNION {[1..k -> S] : k \in 0..n}

Repeat(row, n) == [i \in 1..n |-> row]

\* A committed booking of load lid taken during call cid.
BookingRow(id, lid, cid, rate) ==
    [id |-> id, load_id |-> lid, created_at |-> id, status_at_insert |-> "available",
     call_id |-> cid, agreed_rate |-> rate]

\* The booked_loads tables of the families: no booking; one booking taken
\* during call 1; two bookings (of two loads) taken during call 1; one
\* booking that names no call.  insert_booked_load stores the request's
\* call_id as given, so several bookings may name the same call.
BookingTables ==
    { <<>>,
      <<BookingRow(1, "L1", 1, 1000)>>,
      <<BookingRow(1, "L1", 1, 1000), BookingRow(2, "L2", 1, 800)>>,
      <<BookingRow(1, "L1", NoValue, 900)>> }

\* The loads table that goes with a booked_loads table.
LoadsFor(bls) ==
    [l \in LoadIds |->
        IF RowsOf(bls, l) # {}
        THEN [status |-> "booked", equipment_type |-> "dry_van",
              booked_at |-> bls[CHOOSE i \in RowsOf(bls, l) : TRUE].created_at]
        ELSE [status |-> "available", equipment_type |-> "dry_van",
              booked_at |-> 0]]

DepthKinds ==
    {CallRow("booked", r, NULL, NULL, NULL, NoValue, TRUE) :
        r \in {NoValue, 0, 1, 2, 3, 5}}
    \cup {CallRow("booked", 1, NULL, NULL, NULL, NoValue, FALSE),
          CallRow("dropped_call", 2, NULL, NULL, NULL, NoValue, TRUE)}

ObjectionKinds ==
    {CallRow(o, NoValue, NULL, NULL, NULL, NoValue, TRUE) :
        o \in {"negotiation_failed", "dropped_call", "no_loads_available", "booked"}}
    \cup {CallRow(o, NoValue, NULL, NULL, NULL, NoValue, FALSE) :
            o \in {"negotiation_failed", "no_loads_available"}}

LaneKinds ==
    {CallRow("booked", 1, NULL, "A", "B", 1000, TRUE),
     CallRow("booked", 1, NULL, "A", "B", NoValue, TRUE),
     CallRow("dropped_call", 0, NULL, "A", "B", 700, TRUE),
     CallRow("booked", 0, NULL, "C", "D", 500, TRUE),
     CallRow("negotiation_failed", 2, NULL, "C", "D", NoValue, TRUE),
     CallRow("booked", 0, NULL, "A", NULL, 500, TRUE)}

\* Six lanes, to have more lanes than top_lanes keeps.
SixLanes == <<"A", "C", "E", "F", "G", "H">>
OneCallPerLane ==
    [i \in 1..Len(SixLanes) |->
        CallRow("dropped_call", 0, NULL, SixLanes[i], "Z", NoValue, TRUE)]
ExtraLaneKinds ==
    {CallRow("booked", 0, NULL, o, "Z", 500, TRUE) : o \in {"C", "G", "H"}}

EquipTypes == {"dry_van", "reefer", "car_hauler"}
EquipLoadIds == {"L1", "L2", "L3"}
EquipCall(t) == CallRow("booked", 0, t, NULL, NULL, NoValue, TRUE)

DepthTables ==
    /\ \E s \in SeqsUpTo(DepthKinds, MaxDepthCalls) : calls = WithIds(s)
    /\ booked_loads = <<>>
    /\ loads = LoadsFor(<<>>)

ObjectionTables ==
    /\ \E s \in SeqsUpTo(ObjectionKinds, MaxObjectionCalls) : calls = WithIds(s)
    /\ booked_loads \in BookingTables
    /\ loads = LoadsFor(booked_loads)

LaneTables ==
    /\ \/ \E s \in SeqsUpTo(LaneKinds, MaxLaneCalls) : calls = WithIds(s)
       \/ \E s \in SeqsUpTo(ExtraLaneKinds, MaxExtraLaneCalls) :
             calls = WithIds(OneCallPerLane \o s)
    /\ booked_loads \in BookingTables
    /\ loads = LoadsFor(booked_loads)

EquipmentTables ==
    /\ \E a \in 0..MaxReeferCalls, b \in {0, 1, BigCount}, c \in {0, 1} :
          calls = WithIds(Repeat(EquipCall("reefer"), a)
                          \o Repeat(EquipCall("dry_van"), b)
                          \o Repeat(EquipCall("car_hauler"), c)
                          \o <<CallRow("booked", 0, NULL, NULL, NULL, NoValue, TRUE),
                               CallRow("booked", 0, "flatbed", NULL, NULL, NoValue, FALSE)>>)
    /\ booked_loads = <<>>
    /\ loads \in [EquipLoadIds ->
                    [status : {"available", "in_transit"},
                     equipment_type : EquipTypes, booked_at : {0}]]

InitAnalytics ==
    /\ \/ DepthTables
       \/ ObjectionTables
       \/ LaneTables
       \/ EquipmentTables
    /\ analytics = EmptyResponse
    /\ step = 0
    /\ RequestInit

SpecAnalytics == InitAnalytics /\ [][NextAnalytics]_vars

(***************************************************************************)
(* Vocabulary of the claims.                                               *)
(***************************************************************************)
\* The request's booking attempt has ended (book_load returned or raised).
Ended(p) == pc[p] \in {"respond", "done", "failed_insert", "failed_update",
                       "failed_commit"}

\* The requests for one load.
RequestsFor(lid) == {p \in Procs : pc[p] # "idle" /\ req[p].load_id = lid}

Successes(lid) == {p \in RequestsFor(lid) : result[p] = "ok"}

(***************************************************************************)
(* C1: N >= 2 concurrent bookLoad requests for one available load give     *)
(* exactly one success and N-1 Conflict failures under every interleaving; *)
(* never two or more successes.                                            *)
(***************************************************************************)
C1_ExactlyOneSuccess ==
    \A lid \in LoadIds :
        loads0[lid].status = "available" =>
            /\ Cardinality(Successes(lid)) <= 1
            /\ ( /\ Cardinality(RequestsFor(lid)) >= 2
                 /\ \A p \in RequestsFor(lid) :
                        pc[p] = "done" /\ result[p] # "StorageFailure" )
               => /\ Cardinality(Successes(lid)) = 1
                  /\ \A p \in RequestsFor(lid) \ Successes(lid) :
                         result[p] = "Conflict"

(***************************************************************************)
(* C2: in every reachable state each load_id has at most one row in        *)
(* booked_loads, and every row was inserted for a load whose status was    *)
(* `available` at the moment of the insert.                                *)
(***************************************************************************)
C2_AtMostOneBooking ==
    /\ \A lid \in LoadIds : Cardinality(RowsOf(booked_loads, lid)) <= 1
    /\ \A i \in 1..Len(booked_loads) :
           booked_loads[i].status_at_insert = "available"

(***************************************************************************)
(* C3: the booking write is all-or-nothing.  After an attempt has ended    *)
(* (success, NotFound/Conflict, or a storage failure at any statement) the *)
(* observable tables hold, for its load, either a row together with        *)
(* status = booked and booked_at = a booking's created_at, or no row and   *)
(* the load as it was; a successful attempt's row is there and a failed    *)
(* attempt's row is not.  The step that ends an attempt either inserts the *)
(* row and sets status = booked, booked_at = that booking's created_at, or *)
(* changes neither table.                                                  *)
(***************************************************************************)
C3_NoPartialState ==
    \A p \in Procs :
        (Ended(p) /\ req[p].load_id \in LoadIds) =>
            LET lid == req[p].load_id
                rows == RowsOf(booked_loads, lid)
            IN  /\ (result[p] = "ok") <=> HasBooking(booked_loads, p)
                /\ IF rows = {}
                   THEN loads[lid] = loads0[lid]
                   ELSE /\ loads[lid].status = "booked"
                        /\ \E i \in rows :
                              loads[lid].booked_at = booked_loads[i].created_at

C3_EndingStep ==
    \A p \in Procs :
        (~Ended(p) /\ Ended(p)') =>
            \/ /\ result'[p] = "ok"
               /\ Len(booked_loads') = Len(booked_loads) + 1
               /\ booked_loads'[Len(booked_loads')].id = booking[p].id
               /\ booked_loads'[Len(booked_loads')].created_at = booking[p].created_at
               /\ loads'[req[p].load_id].status = "booked"
               /\ loads'[req[p].load_id].booked_at = booking[p].created_at
            \/ /\ result'[p] # "ok"
               /\ UNCHANGED <<loads, booked_loads>>

C4_Sequential ==
    \A p \in Procs :
        pc[p] \in {"respond", "done"} =>
            LET lid == req[p].load_id IN
            /\ atStart[p] = "available" =>
                  /\ result[p] = "ok"
                  /\ loads[lid].status = "booked"
                  /\ Cardinality(RowsOf(booked_loads, lid)) = 1
            /\ atStart[p] = "absent" => result[p] = "NotFound"
            /\ \A q \in 1..(p - 1) :
                  (result[q] = "ok" /\ req[q].load_id = lid)
                      => result[p] = "Conflict"
            /\ ( /\ result[p] \in {"Conflict", "NotFound"}
                 /\ \A q \in (p + 1)..NumRequests : pc[q] = "idle" )
               => /\ loads = pre.loads
                  /\ booked_loads = pre.booked_loads

\* A success, then a Conflict on the same load, then a NotFound.
C4_Witness ==
    \E p, q, r \in Procs :
        /\ p < q /\ q < r
        /\ pc[p] = "done" /\ pc[q] = "done" /\ pc[r] = "done"
        /\ result[p] = "ok" /\ req[q].load_id = req[p].load_id
        /\ result[q] = "Conflict"
        /\ req[r].load_id = UnknownLoadId /\ result[r] = "NotFound"

(***************************************************************************)
(* C5: at the POST boundary a Conflict is always answered with 409 and a   *)
(* NotFound with 404, never the other way round, and a successful booking  *)
(* raises no error.                                                        *)
(***************************************************************************)
C5_ResponseCodes ==
    \A p \in Procs :
        pc[p] = "done" =>
            /\ result[p] = "Conflict" => http[p] = 409
            /\ result[p] = "NotFound" => http[p] = 404
            /\ result[p] = "ok" => http[p] = 200

C5_Witness ==
    \E p, q, r \in Procs :
        /\ pc[p] = "done" /\ result[p] = "Conflict" /\ http[p] = 409
        /\ pc[q] = "done" /\ result[q] = "NotFound" /\ http[q] = 404
        /\ pc[r] = "done" /\ result[r] = "ok" /\ http[r] = 200

(***************************************************************************)
(* Vocabulary of the analytics claims, stated on the tables.               *)
(***************************************************************************)
\* The calls of the 30-day window, by position in the calls table.
Window == {i \in 1..Len(calls) : calls[i].recent}

WindowWithOutcome(o) == {i \in Window : calls[i].outcome = o}

Abs(n) == IF n < 0 THEN 0 - n ELSE n

\* The sum of one percentage column of a returned list.
SumPct(list) ==
    LET Add(n, e) == n + e.pct IN ForEach(Add, 0, list)
SumDemand(list) ==
    LET Add(n, e) == n + e.demand IN ForEach(Add, 0, list)
SumSupply(list) ==
    LET Add(n, e) == n + e.supply IN ForEach(Add, 0, list)

\* A column that sums to 100 within (number of buckets - 1).
NearHundred(sum, list) == Abs(sum - 100) <= Len(list) - 1

AvailableLoads == {l \in DOMAIN loads : loads[l].status = "available"}
EquipmentCalls == {i \in Window : calls[i].equipment_type # NULL}

(***************************************************************************)
(* C6 as claimed: whenever a returned list is non-empty, each of its       *)
(* percentage columns (pct of negotiation depth, pct of carrier            *)
(* objections, demand and supply of equipment demand/supply) sums to 100   *)
(* within (number of buckets - 1).                                         *)
(***************************************************************************)
C6_Original ==
    step = 4 =>
        LET d == analytics.negotiation_depth
            o == analytics.carrier_objections
            e == analytics.equipment_demand_supply
        IN  /\ d # <<>> => NearHundred(SumPct(d), d)
            /\ o # <<>> => NearHundred(SumPct(o), o)
            /\ e # <<>> => /\ NearHundred(SumDemand(e), e)
                           /\ NearHundred(SumSupply(e), e)

(***************************************************************************)
(* C6 as amended: the pct values of a non-empty negotiation-depth or       *)
(* carrier-objection list sum to 100 within (number of buckets - 1); the   *)
(* demand values do when at least one load is available and the supply     *)
(* values do when at least one call of the window has an equipment type;   *)
(* a side of the equipment list that has no data is all zeros.             *)
(***************************************************************************)
C6_PercentagesSum ==
    step = 4 =>
        LET d == analytics.negotiation_depth
            o == analytics.carrier_objections
            e == analytics.equipment_demand_supply
        IN  /\ d # <<>> => NearHundred(SumPct(d), d)
            /\ o # <<>> => NearHundred(SumPct(o), o)
            /\ IF AvailableLoads # {}
               THEN NearHundred(SumDemand(e), e) ELSE SumDemand(e) = 0
            /\ IF EquipmentCalls # {}
               THEN NearHundred(SumSupply(e), e) ELSE SumSupply(e) = 0

\* Three depth buckets of one call each: 33 + 33 + 33.
C6_Witness ==
    /\ step = 4
    /\ Len(analytics.negotiation_depth) = 3
    /\ SumPct(analytics.negotiation_depth) = 99

(***************************************************************************)
(* C7: carrier objections have one entry per label that occurs ("Rate too  *)
(* low" for negotiation_failed, "Call dropped" for dropped_call, "No        *)
(* matching loads" for no_loads_available), each with the number of calls  *)
(* of the window with that outcome, in descending count order, equal       *)
(* counts in the order the labels were first met (failed/dropped rows      *)
(* first, then the no_loads_available rows); 2 negotiation_failed,         *)
(* 1 dropped_call, 1 no_loads_available give                               *)
(* [("Rate too low",2,50),("Call dropped",1,25),("No matching loads",1,25)]*)
(***************************************************************************)
ObjectionOutcomes == {"negotiation_failed", "dropped_call", "no_loads_available"}

ObjectionLabel(o) ==
    CASE o = "negotiation_failed" -> "Rate too low"
      [] o = "dropped_call" -> "Call dropped"
      [] o = "no_loads_available" -> "No matching loads"

\* When a label is first met: the failed/dropped rows come first, in table
\* order, the no_loads_available rows after all of them.
FirstMet(o) ==
    IF o = "no_loads_available" THEN Len(calls) + 1
    ELSE CHOOSE i \in WindowWithOutcome(o) :
            \A j \in WindowWithOutcome(o) : i <= j

C7_CarrierObjections ==
    step >= 2 =>
        LET out == analytics.carrier_objections
            occurring == {o \in ObjectionOutcomes : WindowWithOutcome(o) # {}}
            Entry(o) == CHOOSE k \in 1..Len(out) : out[k].reason = ObjectionLabel(o)
        IN  /\ Len(out) = Cardinality(occurring)
            /\ \A o \in occurring :
                  /\ \E k \in 1..Len(out) : out[k].reason = ObjectionLabel(o)
                  /\ out[Entry(o)].count = Cardinality(WindowWithOutcome(o))
            /\ \A k \in 1..(Len(out) - 1) : out[k].count >= out[k + 1].count
            /\ \A o1, o2 \in occurring :
                  ( /\ \E k \in 1..Len(out) : out[k].reason = ObjectionLabel(o1)
                    /\ \E k \in 1..Len(out) : out[k].reason = ObjectionLabel(o2)
                    /\ out[Entry(o1)].count = out[Entry(o2)].count
                    /\ FirstMet(o1) < FirstMet(o2) )
                  => Entry(o1) < Entry(o2)
            /\ ( /\ Cardinality(WindowWithOutcome("negotiation_failed")) = 2
                 /\ Cardinality(WindowWithOutcome("dropped_call")) = 1
                 /\ Cardinality(WindowWithOutcome("no_loads_available")) = 1 )
               => out = <<[reason |-> "Rate too low", count |-> 2, pct |-> 50],
                          [reason |-> "Call dropped", count |-> 1, pct |-> 25],
                          [reason |-> "No matching loads", count |-> 1, pct |-> 25]>>

(***************************************************************************)
(* C8: every booked call of the window is counted in exactly one bucket,   *)
(* of depth min(negotiation_rounds, 3) with NULL rounds counting as 0; a   *)
(* call with more than 3 rounds lands in the bucket of a call with 3; only *)
(* the depths that occur are emitted, in ascending order, labelled         *)
(* "1st offer", "1 round", "2 rounds", "3 rounds (max)".                   *)
(***************************************************************************)
C8_Labels == <<"1st offer", "1 round", "2 rounds", "3 rounds (max)">>

C8_Depth(i) ==
    IF calls[i].negotiation_rounds = NoValue THEN 0
    ELSE IF calls[i].negotiation_rounds > 3 THEN 3
    ELSE calls[i].negotiation_rounds

\* The calls table with every rounds value above 3 replaced by 3.
C8_CappedCalls ==
    [i \in 1..Len(calls) |->
        [calls[i] EXCEPT !.negotiation_rounds = IF @ > 3 THEN 3 ELSE @]]

C8_NegotiationDepth ==
    step >= 1 =>
        LET out == analytics.negotiation_depth
            booked == WindowWithOutcome("booked")
            InBucket(d) == {i \in booked : C8_Depth(i) = d}
            present == SelectSeq(<<0, 1, 2, 3>>, LAMBDA d : InBucket(d) # {})
        IN  /\ Len(out) = Len(present)
            /\ \A k \in 1..Len(present) :
                  out[k] = [round |-> C8_Labels[present[k] + 1],
                            pct |-> Pct(Cardinality(InBucket(present[k])),
                                        Cardinality(booked))]
            /\ negotiation_depth(C8_CappedCalls) = out

\* Booked calls with 5 rounds, 3 rounds and no rounds value: two buckets.
C8_Witness ==
    /\ step >= 1
    /\ \E i, j, k \in WindowWithOutcome("booked") :
          /\ calls[i].negotiation_rounds = 5
          /\ calls[j].negotiation_rounds = 3
          /\ calls[k].negotiation_rounds = NoValue
    /\ analytics.negotiation_depth =
          <<[round |-> "1st offer", pct |-> 33],
            [round |-> "3 rounds (max)", pct |-> 67]>>

(***************************************************************************)
(* C9: top lanes holds at most 5 lanes, those with the highest call counts *)
(* among the calls of the window, in descending call count with ties in    *)
(* discovery order; a lane's calls is the number of calls of the window on *)
(* that lane, its bookings the number of those with outcome booked, its    *)
(* avg_rate comes from its calls' rates only and is "$0" without any;      *)
(* {A->B booked 1000}, {A->B not booked}, {C->D booked 500} rank A->B      *)
(* (2 calls, "$1,000") above C->D (1 call).                                *)
(***************************************************************************)
OnLane(i) ==
    /\ i \in Window
    /\ Truthy(calls[i].lane_origin) /\ Truthy(calls[i].lane_destination)

LanesInWindow == {LaneKey(calls[i]) : i \in {j \in 1..Len(calls) : OnLane(j)}}

CallsOn(lane) == {i \in 1..Len(calls) : OnLane(i) /\ LaneKey(calls[i]) = lane}

BookedOn(lane) == {i \in CallsOn(lane) : calls[i].outcome = "booked"}

Discovered(lane) ==
    CHOOSE i \in CallsOn(lane) : \A j \in CallsOn(lane) : i <= j

\* A booked call of the lane carries a rate: an agreed rate of one of its
\* bookings, or its own final_rate.
HasRate(lane) ==
    \E i \in BookedOn(lane) :
        \/ calls[i].final_rate # NoValue
        \/ \E b \in 1..Len(booked_loads) :
              /\ booked_loads[b].call_id = calls[i].call_id
              /\ booked_loads[b].agreed_rate # NoValue
              /\ booked_loads[b].agreed_rate # 0

C9_TopLanes ==
    step >= 3 =>
        LET out == analytics.top_lanes IN
        /\ Len(out) = Min(5, Cardinality(LanesInWindow))
        /\ \A k \in 1..Len(out) :
              /\ out[k].lane \in LanesInWindow
              /\ out[k].calls = Cardinality(CallsOn(out[k].lane))
              /\ out[k].bookings = Cardinality(BookedOn(out[k].lane))
              /\ ~HasRate(out[k].lane) => out[k].avg_rate = "$0"
        /\ \A k, m \in 1..Len(out) : k < m =>
              /\ out[k].lane # out[m].lane
              /\ out[k].calls >= out[m].calls
              /\ out[k].calls = out[m].calls
                    => Discovered(out[k].lane) < Discovered(out[m].lane)
        /\ \A lane \in LanesInWindow :
              (\A k \in 1..Len(out) : out[k].lane # lane)
                  => \A k \in 1..Len(out) :
                        Cardinality(CallsOn(lane)) <= out[k].calls
        /\ ( /\ Len(calls) = 3
             /\ calls[1] = [call_id |-> 1] @@ CallRow("booked", 1, NULL, "A", "B", 1000, TRUE)
             /\ calls[2] = [call_id |-> 2] @@ CallRow("dropped_call", 0, NULL, "A", "B", 700, TRUE)
             /\ calls[3] = [call_id |-> 3] @@ CallRow("booked", 0, NULL, "C", "D", 500, TRUE) )
           => /\ Len(out) = 2
              /\ out[1].lane = "A -> B" /\ out[1].calls = 2
              /\ out[1].avg_rate = "$1,000"
              /\ out[2].lane = "C -> D" /\ out[2].calls = 1

(***************************************************************************)
(* C10 as claimed: equipment demand/supply has one entry for every type    *)
(* seen among the available loads or the recent calls; demand is           *)
(* round(available loads of the type / available loads * 100), supply is   *)
(* round(recent calls of the type / recent calls with a type * 100), and   *)
(* all percentages of a side whose total is zero are 0; a type with no     *)
(* available load but some recent call has demand = 0 and supply > 0;      *)
(* entries are in descending demand; the list is empty when both sources   *)
(* are.                                                                    *)
(***************************************************************************)
TypesSeen ==
    {loads[l].equipment_type : l \in AvailableLoads}
        \cup {calls[i].equipment_type : i \in EquipmentCalls}

LoadsOfType(t) == {l \in AvailableLoads : loads[l].equipment_type = t}
CallsOfType(t) == {i \in EquipmentCalls : calls[i].equipment_type = t}

\* round(count / total * 100), 0 when the total is 0.
ShareOf(count, total) == IF total = 0 THEN 0 ELSE Pct(count, total)

C10_Entries ==
    LET out == analytics.equipment_demand_supply IN
    /\ Len(out) = Cardinality(TypesSeen)
    /\ \A t \in TypesSeen :
          \E k \in 1..Len(out) :
              out[k] = [type |-> _format_equip(t),
                        demand |-> ShareOf(Cardinality(LoadsOfType(t)),
                                           Cardinality(AvailableLoads)),
                        supply |-> ShareOf(Cardinality(CallsOfType(t)),
                                           Cardinality(EquipmentCalls))]
    /\ \A k \in 1..(Len(out) - 1) : out[k].demand >= out[k + 1].demand

\* The entry of raw type t.
C10_EntryOf(t) ==
    LET out == analytics.equipment_demand_supply
    IN  out[CHOOSE k \in 1..Len(out) : out[k].type = _format_equip(t)]

C10_Original ==
    step = 4 =>
        /\ C10_Entries
        /\ \A t \in TypesSeen :
              (LoadsOfType(t) = {} /\ CallsOfType(t) # {})
                  => C10_EntryOf(t).demand = 0 /\ C10_EntryOf(t).supply > 0

(***************************************************************************)
(* C10 as amended: as claimed, except that a type with no available load   *)
(* but some recent call has demand = 0 and                                 *)
(* supply = round(its calls / recent calls with a type * 100), which is    *)
(* above 0 when the type has more than 0.5% of those calls and may be 0    *)
(* otherwise.                                                              *)
(***************************************************************************)
C10_EquipmentDemandSupply ==
    step = 4 =>
        /\ C10_Entries
        /\ \A t \in TypesSeen :
              (LoadsOfType(t) = {} /\ CallsOfType(t) # {})
                  => /\ C10_EntryOf(t).demand = 0
                     /\ C10_EntryOf(t).supply =
                           Pct(Cardinality(CallsOfType(t)),
                               Cardinality(EquipmentCalls))
                     /\ 200 * Cardinality(CallsOfType(t))
                            > Cardinality(EquipmentCalls)
                        => C10_EntryOf(t).supply > 0

\* No reefer load is available, reefer calls exist, and other types have
\* available loads: Reefer has demand 0 and a positive supply.
C10_Witness ==
    /\ step = 4
    /\ LoadsOfType("reefer") = {} /\ CallsOfType("reefer") # {}
    /\ AvailableLoads # {}
    /\ C10_EntryOf("reefer").demand = 0
    /\ C10_EntryOf("reefer").supply > 0
    /\ Len(analytics.equipment_demand_supply) >= 2

=============================================================================
